---- MODULE Spec2Model ----
(***************************************************************************)
(* A model of mat_dp_core/maths_core/processes.py: the process registry    *)
(* (Processes), the process handle (Process) and the composite expression  *)
(* (ProcessExpr).                                                          *)
(*                                                                         *)
(* Python objects are modelled by identity: Process objects live in        *)
(* `heap` (object id = position), ProcessExpr objects in `exprs` (each     *)
(* owns one list of Process object ids).  Floating-point multipliers and   *)
(* quantities are small integers, which floats represent exactly.          *)
(* numpy vectors are sequences; resource index i is element i + 1.         *)
(***************************************************************************)
EXTENDS Integers, Sequences, FiniteSets, TLC

VARIABLES
    regs,   \* Processes._processes of each registry: Seq of [name, array]
    cache,  \* Processes._process_produces of each registry
    heap,   \* the Process objects alive: Seq of [parent, index, multiplier]
    exprs   \* the ProcessExpr objects alive: Seq of Seq of heap ids

vars == <<regs, cache, heap, exprs>>

(***************************************************************************)
(* Bounds of the model.                                                    *)
(***************************************************************************)
\* Most definitions a registry holds in the registry specification.
MaxDefs == 2
\* Most entries of one bulk-define call.
MaxBatch == 2
\* Most Process objects alive in the algebra specification.
MaxObjs == 2
\* Most ProcessExpr objects alive in the algebra specification.
MaxExprs == 2
\* Largest magnitude a multiplier may reach.
MaxMult == 2

\* The registry instances.
RegIds == {"A", "B"}
\* The registry instance the registry specification drives; instances share
\* no state, each owns its _processes and its _process_produces.
TheRegistry == "A"
\* Process names.
Names == {"Steel", "Coal"}
\* Resource.index values of the external Resource entity.
ResourceIdx == {0, 1}
\* Quantities of a (Resource, quantity) pair.
Quantities == {2, 3}
\* Numbers of (Resource, quantity) pairs in one definition; 0 is the invalid one.
PairCounts == 0..2
\* Scalars an expression or a handle is multiplied by.
Scalars == {-1, 0, 1, 2}

Pairs == ResourceIdx \X Quantities
ResourceLists == UNION {[1..n -> Pairs] : n \in PairCounts}
\* Entries of a bulk-define call: per name an invalid one and a valid one.
LoadEntries == Names \X {<<>>, <<<<1, 3>>>>}

(***************************************************************************)
(* Helpers: Python's max, numpy's zeros.                                   *)
(***************************************************************************)
Max(S) == CHOOSE x \in S : \A y \in S : y <= x


Zeros(n) == [i \in 1..n |-> 0]

NoError == "none"

(***************************************************************************)
(* Process.__init__: a handle of registry `parent` at `index`, multiplier 1*)
(***************************************************************************)
Process(index, parent) ==
    [parent |-> parent, index |-> index, multiplier |-> 1]

NoProcess == [parent |-> "", index |-> 0, multiplier |-> 0]

(***************************************************************************)
(* Processes.__getitem__ with an int: only `arg < len` is tested, so a     *)
(* negative position passes the test.                                      *)
(***************************************************************************)
GetItem(procs, parent, arg) ==
    IF arg < Len(procs)
    THEN [err |-> NoError, res |-> Process(arg, parent)]
    ELSE [err |-> "IndexError", res |-> NoProcess]

(***************************************************************************)
(* Processes.create: the zero vector of length max index + 1, written pair *)
(* by pair in call order, appended; the handle of the new position.        *)
(***************************************************************************)
RECURSIVE WriteAll(_, _, _)
WriteAll(array, resources, k) ==
    IF k > Len(resources) THEN array
    ELSE WriteAll([array EXCEPT ![resources[k][1] + 1] = resources[k][2]],
                  resources, k + 1)

MakeArray(resources) ==
    LET res_max_index == Max({resources[k][1] : k \in 1..Len(resources)}) + 1
    IN  WriteAll(Zeros(res_max_index), resources, 1)

Create(procs, parent, name, resources) ==
    IF Len(resources) = 0
    THEN [procs |-> procs, err |-> "ValueError", res |-> NoProcess]
    ELSE LET process_inner == [name |-> name, array |-> MakeArray(resources)]
             appended == Append(procs, process_inner)
             got == GetItem(appended, parent, Len(appended) - 1)
         IN  [procs |-> appended, err |-> got.err, res |-> got.res]

(***************************************************************************)
(* Processes.load: list(starmap(self.create, ...)) calls create entry by   *)
(* entry; the first create that raises ends the call, the list of handles  *)
(* is lost and what was appended stays.                                    *)
(***************************************************************************)
RECURSIVE LoadFrom(_, _, _, _, _)
LoadFrom(procs, parent, entries, k, handles) ==
    IF k > Len(entries)
    THEN [procs |-> procs, err |-> NoError, res |-> handles]
    ELSE LET c == Create(procs, parent, entries[k][1], entries[k][2])
         IN  IF c.err # NoError
             THEN [procs |-> c.procs, err |-> c.err, res |-> <<>>]
             ELSE LoadFrom(c.procs, parent, entries, k + 1, Append(handles, c.res))

\* Mutant: a failed bulk define rolls back what it appended.
LoadAtomic(procs, parent, entries) ==
    LET o == LoadFrom(procs, parent, entries, 1, <<>>)
    IN  IF o.err # NoError THEN [o EXCEPT !.procs = procs] ELSE o

Load(procs, parent, entries) == LoadFrom(procs, parent, entries, 1, <<>>)

(***************************************************************************)
(* Processes.process_produces.  ndarray.resize(n) in place keeps the first *)
(* entries and fills with zeros; np.array of the vectors is one row per    *)
(* process, np.transpose makes it one row per resource.                    *)
(***************************************************************************)
NoCache == [set |-> FALSE, id |-> 0, data |-> <<>>]

\* Mutant: numpy.resize(a, n), which repeats the array instead of zero-filling.
ResizeRepeating(array, n) ==
    [i \in 1..n |-> array[((i - 1) % Len(array)) + 1]]

Resize(array, n) ==
    [i \in 1..n |-> IF i <= Len(array) THEN array[i] ELSE 0]

Transpose(rows, nrows, ncols) ==
    [r \in 1..ncols |-> [c \in 1..nrows |-> rows[c][r]]]

ProcessProducesBody(procs, cached, useCache) ==
    IF useCache /\ cached.set
    THEN [procs |-> procs, cache |-> cached, err |-> NoError, res |-> cached]
    ELSE IF Len(procs) = 0
    THEN [procs |-> procs, cache |-> cached, err |-> "ValueError", res |-> NoCache]
    ELSE LET max_resource_size == Max({Len(procs[c].array) : c \in 1..Len(procs)})
             padded == [c \in 1..Len(procs) |->
                          [procs[c] EXCEPT !.array = Resize(@, max_resource_size)]]
             made == [set |-> TRUE, id |-> cached.id + 1,
                      data |-> Transpose([c \in 1..Len(padded) |-> padded[c].array],
                                         Len(padded), max_resource_size)]
         IN  [procs |-> padded, cache |-> made, err |-> NoError, res |-> made]

\* Mutant: the matrix is rebuilt on every access.
ProcessProducesUncached(procs, cached) == ProcessProducesBody(procs, cached, FALSE)

ProcessProduces(procs, cached) == ProcessProducesBody(procs, cached, TRUE)

(***************************************************************************)
(* Process.__eq__: same index and same registry instance; the multiplier   *)
(* is not compared.                                                        *)
(***************************************************************************)
ProcessEq(a, b) == a.index = b.index /\ a.parent = b.parent

(***************************************************************************)
(* `process in self._processes` and `self._processes.index(process)`: the  *)
(* first position of the list whose object equals heap object p, 0 if none.*)
(***************************************************************************)
IndexOf(h, list, p) ==
    LET hits == {j \in 1..Len(list) : ProcessEq(h[list[j]], h[p])}
    IN  IF hits = {} THEN 0 ELSE CHOOSE j \in hits : \A i \in hits : j <= i

(***************************************************************************)
(* A call's outcome: the heap and the expressions after it, the id of the  *)
(* ProcessExpr it returns (0 when it raises) and the exception.            *)
(***************************************************************************)
Outcome(h, es, res, err) == [heap |-> h, exprs |-> es, res |-> res, err |-> err]

\* An operand: a Process object or a ProcessExpr object.
Proc(id) == [kind |-> "proc", id |-> id]
Expr(id) == [kind |-> "expr", id |-> id]

(***************************************************************************)
(* ProcessExpr.__getitem__: the term object itself, not a copy.            *)
(***************************************************************************)
ExprGetItem(es, e, arg) == es[e][arg]

(***************************************************************************)
(* Process.__mul__ (and __rmul__): a copy with the multiplier scaled, in a *)
(* new one-term ProcessExpr.                                               *)
(***************************************************************************)
ProcessMul(h, es, self, other) ==
    LET new_proc == [h[self] EXCEPT !.multiplier = @ * other]
    IN  Outcome(Append(h, new_proc), Append(es, <<Len(h) + 1>>),
                Len(es) + 1, NoError)

ProcessRMul(h, es, self, other) == ProcessMul(h, es, self, other)

\* Process.__neg__
ProcessNeg(h, es, self) == ProcessMul(h, es, self, -1)

(***************************************************************************)
(* ProcessExpr.__mul__ (and __rmul__): self when the scalar is 1, else     *)
(* every term object scaled in place, term by term; self is returned.      *)
(***************************************************************************)
RECURSIVE ScaleFrom(_, _, _, _)
ScaleFrom(h, list, k, other) ==
    IF k > Len(list) THEN h
    ELSE ScaleFrom([h EXCEPT ![list[k]].multiplier = @ * other], list, k + 1, other)

ExprMul(h, es, self, other) ==
    IF other = 1 THEN Outcome(h, es, self, NoError)
    ELSE Outcome(ScaleFrom(h, es[self], 1, other), es, self, NoError)

ExprRMul(h, es, self, other) == ExprMul(h, es, self, other)

(***************************************************************************)
(* ProcessExpr.__neg__: every term object negated in place; self returned. *)
(***************************************************************************)
RECURSIVE NegateFrom(_, _, _)
NegateFrom(h, list, k) ==
    IF k > Len(list) THEN h
    ELSE NegateFrom([h EXCEPT ![list[k]].multiplier = -@], list, k + 1)

ExprNeg(h, es, self) == Outcome(NegateFrom(h, es[self], 1), es, self, NoError)

(***************************************************************************)
(* ProcessExpr.__add__.                                                    *)
(* MergeFrom is the loop of lines 26-35: a right term equal to no left     *)
(* term is appended as the same object, else its multiplier (read when the *)
(* term is reached) is added into the first equal left term.  When both    *)
(* operands are one object every term is found, so the list iterated does  *)
(* not grow.                                                               *)
(***************************************************************************)
\* Mutant: every right term is appended, none merged.
MergeFromAppending(h, selfList, otherList, k) ==
    [heap |-> h, list |-> selfList \o SubSeq(otherList, k, Len(otherList))]

RECURSIVE MergeFrom(_, _, _, _)
MergeFrom(h, selfList, otherList, k) ==
    IF k > Len(otherList) THEN [heap |-> h, list |-> selfList]
    ELSE LET process == otherList[k]
             j == IndexOf(h, selfList, process)
         IN  IF j = 0
             THEN MergeFrom(h, Append(selfList, process), otherList, k + 1)
             ELSE MergeFrom([h EXCEPT ![selfList[j]].multiplier =
                                         @ + h[process].multiplier],
                            selfList, otherList, k + 1)

\* The list comprehension of lines 54-56: the terms with a non-zero multiplier.
NonZero(h, list) == SelectSeq(list, LAMBDA p : h[p].multiplier # 0)

\* Mutant: the registries of the two sides are not compared.
ExprAddExprUnchecked(h, es, self, other) ==
    IF Len(es[other]) = 0 \/ Len(es[self]) = 0
    THEN Outcome(h, es, 0, "IndexError")
    ELSE LET m == MergeFrom(h, es[self], es[other], 1)
             es1 == [es EXCEPT ![self] = m.list]
         IN  Outcome(m.heap, Append(es1, NonZero(m.heap, m.list)),
                     Len(es1) + 1, NoError)

ExprAddExpr(h, es, self, other) ==
    IF Len(es[other]) = 0 \/ Len(es[self]) = 0
    THEN Outcome(h, es, 0, "IndexError")
    ELSE IF h[es[self][1]].parent # h[es[other][1]].parent
    THEN Outcome(h, es, 0, "ValueError")
    ELSE LET m == MergeFrom(h, es[self], es[other], 1)
             es1 == [es EXCEPT ![self] = m.list]
         IN  Outcome(m.heap, Append(es1, NonZero(m.heap, m.list)),
                     Len(es1) + 1, NoError)

ExprAddProc(h, es, self, other) ==
    IF Len(es[self]) = 0
    THEN Outcome(h, es, 0, "IndexError")
    ELSE IF h[es[self][1]].parent # h[other].parent
    THEN Outcome(h, es, 0, "ValueError")
    ELSE LET other_new == Len(h) + 1
             h1 == Append(h, h[other])
             m == MergeFrom(h1, es[self], <<other_new>>, 1)
             es1 == [es EXCEPT ![self] = m.list]
         IN  Outcome(m.heap, Append(es1, NonZero(m.heap, m.list)),
                     Len(es1) + 1, NoError)

ExprAdd(h, es, self, other) ==
    IF other.kind = "expr"
    THEN ExprAddExpr(h, es, self, other.id)
    ELSE ExprAddProc(h, es, self, other.id)

(***************************************************************************)
(* `-other` and `other * 1` for an operand of either class.                *)
(***************************************************************************)
Negated(h, es, other) ==
    IF other.kind = "expr" THEN ExprNeg(h, es, other.id)
    ELSE ProcessNeg(h, es, other.id)

TimesOne(h, es, other) ==
    IF other.kind = "expr" THEN ExprMul(h, es, other.id, 1)
    ELSE ProcessMul(h, es, other.id, 1)

(***************************************************************************)
(* ProcessExpr.__sub__: self + -other; -other is evaluated first.          *)
(***************************************************************************)
ExprSub(h, es, self, other) ==
    LET n == Negated(h, es, other)
    IN  ExprAdd(n.heap, n.exprs, self, Expr(n.res))

(***************************************************************************)
(* Process.__add__: self * 1 + other * 1, left to right.                   *)
(* Process.__sub__: self * 1 + -other.                                     *)
(***************************************************************************)
ProcessAdd(h, es, self, other) ==
    LET a == ProcessMul(h, es, self, 1)
        b == TimesOne(a.heap, a.exprs, other)
    IN  ExprAdd(b.heap, b.exprs, a.res, Expr(b.res))

ProcessSub(h, es, self, other) ==
    LET a == ProcessMul(h, es, self, 1)
        b == Negated(a.heap, a.exprs, other)
    IN  ExprAdd(b.heap, b.exprs, a.res, Expr(b.res))

(***************************************************************************)
(* The end of a call: the temporaries (the handle a registry lookup made   *)
(* for the call, the ProcessExpr objects of `self * 1`, `other * 1` and    *)
(* `-other` other than the one returned, and the Process objects only they *)
(* refer to) are released.  Objects that existed before the call keep      *)
(* their ids.                                                              *)
(***************************************************************************)
Range(f) == {f[i] : i \in DOMAIN f}

Collect(o, nObjs, nExprs) ==
    LET kept == IF o.res > nExprs
                THEN Append(SubSeq(o.exprs, 1, nExprs), o.exprs[o.res])
                ELSE SubSeq(o.exprs, 1, nExprs)
        res == IF o.res > nExprs THEN nExprs + 1 ELSE o.res
        referenced == UNION {Range(kept[e]) : e \in 1..Len(kept)}
        alive == SelectSeq([i \in 1..Len(o.heap) |-> i],
                           LAMBDA i : i <= nObjs \/ i \in referenced)
        newId(i) == CHOOSE n \in 1..Len(alive) : alive[n] = i
    IN  [heap  |-> [n \in 1..Len(alive) |-> o.heap[alive[n]]],
         exprs |-> [e \in 1..Len(kept) |->
                      [t \in 1..Len(kept[e]) |-> newId(kept[e][t])]],
         res   |-> res,
         err   |-> o.err]

(***************************************************************************)
(* The arguments the caller can name: a handle asked of a registry for the *)
(* call, a term object read from an expression by position or enumeration, *)
(* an expression.                                                          *)
(***************************************************************************)
HandleArg(r, p) == [kind |-> "handle", id |-> 0, parent |-> r, index |-> p]
TermArg(id) == [kind |-> "term", id |-> id, parent |-> "", index |-> 0]
ExprArg(id) == [kind |-> "expr", id |-> id, parent |-> "", index |-> 0]

HandleArgs ==
    UNION {{HandleArg(r, p) : p \in 0..(Len(regs[r]) - 1)} : r \in RegIds}

TermArgs ==
    UNION {{TermArg(ExprGetItem(exprs, e, t)) : t \in 1..Len(exprs[e])} :
              e \in 1..Len(exprs)}

ProcArgs == HandleArgs \cup TermArgs

ExprArgs == {ExprArg(e) : e \in 1..Len(exprs)}

AnyArgs == ProcArgs \cup ExprArgs

\* The object an argument names; a "handle" argument is looked up first and
\* is a new Process object.
Resolve(h, x) ==
    IF x.kind = "handle"
    THEN [heap |-> Append(h, GetItem(regs[x.parent], x.parent, x.index).res),
          ref  |-> Proc(Len(h) + 1)]
    ELSE IF x.kind = "term"
    THEN [heap |-> h, ref |-> Proc(x.id)]
    ELSE [heap |-> h, ref |-> Expr(x.id)]

(***************************************************************************)
(* The outcome of a call in the current state: Python dispatches x + y,    *)
(* x - y, x * k, k * x and -x on the class of x.                           *)
(***************************************************************************)
AddOutcome(x, y) ==
    LET a == Resolve(heap, x)
        b == Resolve(a.heap, y)
    IN  IF x.kind = "expr"
        THEN ExprAdd(b.heap, exprs, a.ref.id, b.ref)
        ELSE ProcessAdd(b.heap, exprs, a.ref.id, b.ref)

SubOutcome(x, y) ==
    LET a == Resolve(heap, x)
        b == Resolve(a.heap, y)
    IN  IF x.kind = "expr"
        THEN ExprSub(b.heap, exprs, a.ref.id, b.ref)
        ELSE ProcessSub(b.heap, exprs, a.ref.id, b.ref)

MulOutcome(x, k) ==
    LET a == Resolve(heap, x)
    IN  IF x.kind = "expr"
        THEN ExprMul(a.heap, exprs, a.ref.id, k)
        ELSE ProcessMul(a.heap, exprs, a.ref.id, k)

RMulOutcome(k, x) ==
    LET a == Resolve(heap, x)
    IN  IF x.kind = "expr"
        THEN ExprRMul(a.heap, exprs, a.ref.id, k)
        ELSE ProcessRMul(a.heap, exprs, a.ref.id, k)

NegOutcome(x) ==
    LET a == Resolve(heap, x)
    IN  IF x.kind = "expr"
        THEN ExprNeg(a.heap, exprs, a.ref.id)
        ELSE ProcessNeg(a.heap, exprs, a.ref.id)

Abs(x) == IF x < 0 THEN -x ELSE x

(***************************************************************************)
(* Initial states.                                                         *)
(***************************************************************************)
\* Registry specification: the registries as constructed, empty.
RegInit ==
    /\ regs = [r \in RegIds |-> <<>>]
    /\ cache = [r \in RegIds |-> NoCache]
    /\ heap = <<>>
    /\ exprs = <<>>

\* Algebra specification: registry A after defining Steel and Coal, registry
\* B after defining Steel; no expression made yet.
Init ==
    /\ regs = [r \in RegIds |->
                 IF r = "A"
                 THEN Create(Create(<<>>, r, "Steel", <<<<0, 2>>>>).procs,
                             r, "Coal", <<<<1, 3>>>>).procs
                 ELSE Create(<<>>, r, "Steel", <<<<0, 2>>>>).procs]
    /\ cache = [r \in RegIds |-> NoCache]
    /\ heap = <<>>
    /\ exprs = <<>>

(***************************************************************************)
(* Registry specification: the calls on a Processes object.  What a call   *)
(* returns or raises is the value of its operator; the state keeps what    *)
(* the call leaves in the registry.                                        *)
(***************************************************************************)
DoCreate ==
    \E name \in Names, resources \in ResourceLists :
    \E c \in {Create(regs[TheRegistry], TheRegistry, name, resources)} :
        /\ Len(c.procs) <= MaxDefs
        /\ regs' = [regs EXCEPT ![TheRegistry] = c.procs]
        /\ UNCHANGED <<cache, heap, exprs>>

DoLoad ==
    \E n \in 0..MaxBatch :
    \E entries \in [1..n -> LoadEntries] :
    \E c \in {Load(regs[TheRegistry], TheRegistry, entries)} :
        /\ Len(c.procs) <= MaxDefs
        /\ regs' = [regs EXCEPT ![TheRegistry] = c.procs]
        /\ UNCHANGED <<cache, heap, exprs>>

DoGetItem ==
    \E arg \in -(MaxDefs + 1)..(MaxDefs + 1) :
    \E g \in {GetItem(regs[TheRegistry], TheRegistry, arg)} :
        /\ g.err \in {NoError, "IndexError"}
        /\ UNCHANGED <<regs, cache, heap, exprs>>

DoProcessProduces ==
    \E c \in {ProcessProduces(regs[TheRegistry], cache[TheRegistry])} :
        /\ regs' = [regs EXCEPT ![TheRegistry] = c.procs]
        /\ cache' = [cache EXCEPT ![TheRegistry] = c.cache]
        /\ UNCHANGED <<heap, exprs>>

RegNext == DoCreate \/ DoLoad \/ DoGetItem \/ DoProcessProduces

SpecRegistry == RegInit /\ [][RegNext]_vars

(***************************************************************************)
(* Algebra specification: the calls on Process and ProcessExpr objects.    *)
(* A call that raises leaves what it changed before raising.               *)
(***************************************************************************)
\* A call with outcome o takes effect.
Call(o) ==
    \E c \in {Collect(o, Len(heap), Len(exprs))} :
        /\ Len(c.heap) <= MaxObjs
        /\ Len(c.exprs) <= MaxExprs
        /\ \A i \in 1..Len(c.heap) : Abs(c.heap[i].multiplier) <= MaxMult
        /\ heap' = c.heap
        /\ exprs' = c.exprs
        /\ UNCHANGED <<regs, cache>>

DoProcessMul ==
    \E x \in ProcArgs, k \in Scalars : Call(MulOutcome(x, k))

DoProcessRMul ==
    \E x \in ProcArgs, k \in Scalars : Call(RMulOutcome(k, x))

DoProcessNeg ==
    \E x \in ProcArgs : Call(NegOutcome(x))

DoProcessAdd ==
    \E x \in ProcArgs, y \in AnyArgs : Call(AddOutcome(x, y))

DoProcessSub ==
    \E x \in ProcArgs, y \in AnyArgs : Call(SubOutcome(x, y))

DoExprMul ==
    \E x \in ExprArgs, k \in Scalars : Call(MulOutcome(x, k))

DoExprRMul ==
    \E x \in ExprArgs, k \in Scalars : Call(RMulOutcome(k, x))

DoExprNeg ==
    \E x \in ExprArgs : Call(NegOutcome(x))

DoExprAdd ==
    \E x \in ExprArgs, y \in AnyArgs : Call(AddOutcome(x, y))

DoExprSub ==
    \E x \in ExprArgs, y \in AnyArgs : Call(SubOutcome(x, y))

Next ==
    \/ DoProcessMul
    \/ DoProcessRMul
    \/ DoProcessNeg
    \/ DoProcessAdd
    \/ DoProcessSub
    \/ DoExprMul
    \/ DoExprRMul
    \/ DoExprNeg
    \/ DoExprAdd
    \/ DoExprSub

Spec == Init /\ [][Next]_vars

(***************************************************************************)
(*                      Claims on the registry                             *)
(***************************************************************************)
Positions == -(MaxDefs + 1)..(MaxDefs + 1)

Count == Len(regs[TheRegistry])

\* C1 as stated: lookup by position returns the handle of position p when
\* 0 <= p < count and raises IndexError (OutOfRange) for every other p,
\* negative ones included.
C1_LookupByPosition ==
    \A p \in Positions :
        LET g == GetItem(regs[TheRegistry], TheRegistry, p)
        IN  IF 0 <= p /\ p < Count
            THEN g.err = NoError /\ g.res = Process(p, TheRegistry)
            ELSE g.err = "IndexError"

\* The produce matrix's shape and one entry of it.
NRows(m) == Len(m.data)
NCols(m) == IF Len(m.data) = 0 THEN 0 ELSE Len(m.data[1])
Quantity(procs, r, c) ==
    IF r <= Len(procs[c].array) THEN procs[c].array[r] ELSE 0

\* C6: once the produce matrix is cached, no define, bulk define or access
\* changes it, and an access still returns that same array object (same
\* identity, shape and entries).
C6_CacheNeverRefreshed ==
    [][cache[TheRegistry].set =>
         /\ cache'[TheRegistry] = cache[TheRegistry]
         /\ ProcessProduces(regs'[TheRegistry], cache'[TheRegistry]).res
               = cache[TheRegistry]
         /\ ProcessProduces(regs'[TheRegistry], cache'[TheRegistry]).err
               = NoError]_vars

\* C6 witness: the matrix is cached and the registry has since grown, so the
\* cached array lacks a column for the newest definition.
C6_Witness ==
    /\ cache[TheRegistry].set
    /\ NCols(cache[TheRegistry]) < Count

\* C7: the first access on a non-empty registry of n definitions returns a
\* matrix of M = max vector length rows and n columns whose entry [r][c] is
\* the c-th definition's quantity for resource r (0 past its vector's end),
\* and leaves every stored vector of length M: its entries, then zeros.
C7_FirstAccess ==
    [][(~cache[TheRegistry].set /\ cache'[TheRegistry].set) =>
         LET before == regs[TheRegistry]
             after == regs'[TheRegistry]
             m == cache'[TheRegistry]
             n == Len(before)
             M == Max({Len(before[c].array) : c \in 1..n})
         IN  /\ n > 0
             /\ NRows(m) = M
             /\ NCols(m) = n
             /\ \A r \in 1..M : \A c \in 1..n :
                    m.data[r][c] = Quantity(before, r, c)
             /\ Len(after) = n
             /\ \A c \in 1..n :
                    /\ after[c].name = before[c].name
                    /\ Len(after[c].array) = M
                    /\ \A r \in 1..M : after[c].array[r] = Quantity(before, r, c)]_vars

\* C7 witness: the matrix was computed over two definitions and a stored
\* vector now ends in a zero, which only padding writes (a defined vector
\* ends in the quantity of its largest resource index).
C7_Witness ==
    /\ cache[TheRegistry].set
    /\ NCols(cache[TheRegistry]) = 2
    /\ NRows(cache[TheRegistry]) = 2
    /\ \E c \in 1..Count : regs[TheRegistry][c].array[2] = 0
    /\ \E c \in 1..Count : regs[TheRegistry][c].array[2] # 0

\* The definition an entry of a bulk define stands for.
Definition(entry) == [name |-> entry[1], array |-> MakeArray(entry[2])]

Batches == UNION {[1..n -> LoadEntries] : n \in 0..MaxBatch}

FirstInvalid(entries) ==
    LET bad == {k \in 1..Len(entries) : Len(entries[k][2]) = 0}
    IN  IF bad = {} THEN 0 ELSE CHOOSE k \in bad : \A j \in bad : k <= j

\* C8: a bulk define whose first invalid entry (no pairs) is entry k raises
\* ValueError (InvalidInput) and leaves the previous definitions followed by
\* those of the entries before k, in order; with no invalid entry it returns
\* the handles of positions oldCount .. oldCount + len - 1 in input order.
C8_BulkDefineNotAtomic ==
    \A entries \in Batches :
        LET o == Load(regs[TheRegistry], TheRegistry, entries)
            k == FirstInvalid(entries)
            upto == IF k = 0 THEN Len(entries) ELSE k - 1
            added == [i \in 1..upto |-> Definition(entries[i])]
        IN  /\ o.procs = regs[TheRegistry] \o added
            /\ IF k = 0
               THEN /\ o.err = NoError
                    /\ o.res = [i \in 1..Len(entries) |->
                                  Process(Count + i - 1, TheRegistry)]
               ELSE /\ o.err = "ValueError"
                    /\ o.res = <<>>

\* C8 witness: a registry that holds a definition, and a batch that fails on
\* it after its first entry was committed.
C8_Witness ==
    /\ Count > 0
    /\ \E entries \in Batches :
           LET o == Load(regs[TheRegistry], TheRegistry, entries)
           IN  /\ FirstInvalid(entries) = 2
               /\ o.err = "ValueError"
               /\ Len(o.procs) = Count + 1

(***************************************************************************)
(*                 Claims on handles and expressions                       *)
(* A claim about a call is stated of the call's outcome in every reachable *)
(* state, for every argument the caller can name there.                    *)
(***************************************************************************)
\* The Process object an argument names once resolved: a handle asked of a
\* registry is the first object made for the call when it is the left
\* operand or the left operand makes none, else the second.
FirstId(x) == IF x.kind = "handle" THEN Len(heap) + 1 ELSE x.id
SecondId(x, y) ==
    IF y.kind # "handle" THEN y.id
    ELSE IF x.kind = "handle" THEN Len(heap) + 2 ELSE Len(heap) + 1

\* What an argument's Process object holds before the call.
ObjectOf(x) == IF x.kind = "handle" THEN Process(x.index, x.parent) ELSE heap[x.id]

NonEmpty(x) == x.kind # "expr" \/ Len(exprs[x.id]) > 0

\* The registry an operand belongs to (for an expression, its first term's).
OwnerOf(x) ==
    IF x.kind = "expr" THEN heap[exprs[x.id][1]].parent ELSE ObjectOf(x).parent

Key(p) == <<p.parent, p.index>>

NoDuplicates(h, list) ==
    \A i, j \in 1..Len(list) : i # j => Key(h[list[i]]) # Key(h[list[j]])

\* The multiplier a term list gives a position: 0 when it has no such term.
Coef(h, list, key) ==
    LET hits == {t \in 1..Len(list) : Key(h[list[t]]) = key}
    IN  IF hits = {} THEN 0 ELSE h[list[CHOOSE t \in hits : TRUE]].multiplier

\* C2: no expression holds two terms of one (index, registry) pair, and the
\* sum of two registry handles of one position is one term of multiplier 2.
C2_TermsMerged ==
    /\ \A e \in 1..Len(exprs) : NoDuplicates(heap, exprs[e])
    /\ \A x, y \in HandleArgs :
           (x.parent = y.parent /\ x.index = y.index) =>
               LET o == AddOutcome(x, y)
               IN  /\ o.err = NoError
                   /\ Len(o.exprs[o.res]) = 1
                   /\ o.heap[o.exprs[o.res][1]].multiplier = 2
                   /\ Key(o.heap[o.exprs[o.res][1]]) = <<x.parent, x.index>>

\* C2 witness: an expression of two terms, one of which has taken a second
\* unit of its position by merging.
C2_Witness ==
    \E e \in 1..Len(exprs) :
        /\ Len(exprs[e]) = 2
        /\ heap[exprs[e][1]].multiplier = 2
        /\ heap[exprs[e][2]].multiplier = 1

\* C3 as stated: after L + R (two expression objects sharing no term) no
\* term object of L's list or of the result is a term object of R, so
\* scaling the result leaves R's multipliers as they were.
C3_RightTermsCopied ==
    \A x, y \in ExprArgs :
        (/\ x.id # y.id
         /\ Range(exprs[x.id]) \cap Range(exprs[y.id]) = {}) =>
            LET o == AddOutcome(x, y)
            IN  o.err = NoError =>
                  /\ Range(o.exprs[x.id]) \cap Range(o.exprs[y.id]) = {}
                  /\ Range(o.exprs[o.res]) \cap Range(o.exprs[y.id]) = {}
                  /\ \A k \in Scalars :
                         LET o2 == ExprMul(o.heap, o.exprs, o.res, k)
                         IN  \A t \in Range(exprs[y.id]) : o2.heap[t] = o.heap[t]

\* C4 as stated: E + h, h * k, k * h, h + x, h - x and -h leave the handle h
\* (one a registry returned, or a term read from an expression) as it was.
C4_HandleNeverMutated ==
    \A h \in ProcArgs :
        /\ \A e \in ExprArgs :
               AddOutcome(e, h).heap[SecondId(e, h)] = ObjectOf(h)
        /\ \A k \in Scalars :
               /\ MulOutcome(h, k).heap[FirstId(h)] = ObjectOf(h)
               /\ RMulOutcome(k, h).heap[FirstId(h)] = ObjectOf(h)
        /\ \A x \in AnyArgs :
               /\ AddOutcome(h, x).heap[FirstId(h)] = ObjectOf(h)
               /\ SubOutcome(h, x).heap[FirstId(h)] = ObjectOf(h)
        /\ NegOutcome(h).heap[FirstId(h)] = ObjectOf(h)

\* C5: adding or subtracting operands (handles or non-empty expressions) of
\* different registries raises ValueError (InvalidInput), and every
\* expression's terms belong to one registry.
C5_OneRegistry ==
    /\ \A e \in 1..Len(exprs) : \A t \in 1..Len(exprs[e]) :
           heap[exprs[e][t]].parent = heap[exprs[e][1]].parent
    /\ \A x, y \in AnyArgs :
           (NonEmpty(x) /\ NonEmpty(y) /\ OwnerOf(x) # OwnerOf(y)) =>
               /\ AddOutcome(x, y).err = "ValueError"
               /\ SubOutcome(x, y).err = "ValueError"

\* C5 witness: expressions of both registries exist and adding them, either
\* way round, raises ValueError.
C5_Witness ==
    \E x, y \in ExprArgs :
        /\ Len(exprs[x.id]) = 1
        /\ Len(exprs[y.id]) = 1
        /\ OwnerOf(x) # OwnerOf(y)
        /\ AddOutcome(x, y).err = "ValueError"
        /\ AddOutcome(y, x).err = "ValueError"

\* C9 as stated: L - R, for non-empty expressions of one registry (the same
\* object or objects sharing terms included), returns the expression whose
\* multiplier at each position is L's before the call minus R's before the
\* call, without zero-multiplier terms; E - E has no terms.
C9_SubtractionIsDifference ==
    \A x, y \in ExprArgs :
        (NonEmpty(x) /\ NonEmpty(y) /\ OwnerOf(x) = OwnerOf(y)) =>
            LET o == SubOutcome(x, y)
                L == exprs[x.id]
                R == exprs[y.id]
                keys == {Key(heap[t]) : t \in Range(L) \cup Range(R)}
            IN  /\ o.err = NoError
                /\ NoDuplicates(o.heap, o.exprs[o.res])
                /\ \A t \in Range(o.exprs[o.res]) :
                       /\ o.heap[t].multiplier # 0
                       /\ Key(o.heap[t]) \in keys
                /\ \A key \in keys :
                       Coef(o.heap, o.exprs[o.res], key)
                           = Coef(heap, L, key) - Coef(heap, R, key)

\* An operand is after the call as it was before: an expression's term list
\* and term multipliers, a handle's fields.
OperandUntouched(o, x, id) ==
    IF x.kind = "expr"
    THEN /\ o.exprs[x.id] = exprs[x.id]
         /\ \A t \in Range(exprs[x.id]) : o.heap[t] = heap[t]
    ELSE o.heap[id] = ObjectOf(x)

\* C10 as stated: an addition or subtraction that raises ValueError for
\* operands of different registries leaves both operands as they were.
C10_FailedCallChangesNothing ==
    \A x, y \in AnyArgs :
        /\ AddOutcome(x, y).err = "ValueError" =>
               /\ OperandUntouched(AddOutcome(x, y), x, FirstId(x))
               /\ OperandUntouched(AddOutcome(x, y), y, SecondId(x, y))
        /\ SubOutcome(x, y).err = "ValueError" =>
               /\ OperandUntouched(SubOutcome(x, y), x, FirstId(x))
               /\ OperandUntouched(SubOutcome(x, y), y, SecondId(x, y))

====
